---- MODULE Spec2Model ----
(***************************************************************************)
(* Connect 4 on a 10x10 board with three markers (two humans, one AI):     *)
(* the board operations, the heuristic evaluator and the minimax search    *)
(* with alpha-beta pruning of src/main.py.  The recursive search is        *)
(* modelled as a machine over an explicit call stack, one step per         *)
(* speculative placement, per call entry and per undo, so that the board   *)
(* states inside the search are states of the model.                       *)
(***************************************************************************)
EXTENDS Integers, Sequences, FiniteSets, TLC

(***************************************************************************)
(* Program constants.                                                      *)
(***************************************************************************)
BOARD_SIZE == 10
EMPTY == 0
P1 == 1
P2 == 2
AI == 3
WIN_SCORE == 1000000
\* float('inf'): an integer above every score the program can produce
\* (|score_position| < 30000 and the sentinels are +-1000000); only
\* compared, never added to.
PosInf == 10000000
NegInf == -PosInf

(***************************************************************************)
(* Bounds of the model.                                                    *)
(***************************************************************************)
\* largest depth argument of a top-level minimax call
MaxDepth == 5

Rows == 0 .. (BOARD_SIZE - 1)
Cols == 0 .. (BOARD_SIZE - 1)
Players == {P1, P2, AI}

\* Optional[int]: None is the empty sequence, a column c is <<c>>
None == << >>
Some(c) == << c >>

Max(a, b) == IF a >= b THEN a ELSE b
Min(a, b) == IF a <= b THEN a ELSE b
Abs(x) == IF x < 0 THEN -x ELSE x

(***************************************************************************)
(* Board                                                                   *)
(***************************************************************************)
\* np.zeros((BOARD_SIZE, BOARD_SIZE)); row 0 is the top row
EmptyBoard == [r \in Rows |-> [c \in Cols |-> EMPTY]]

\* self.board[row, col] = v
SetCell(b, r, c, v) == [b EXCEPT ![r][c] = v]

\* The window of length 4 that starts at (r, c) and runs in direction (dr, dc)
\* holds the cells (r + i*dr, c + i*dc), i = 0 .. 3: board[row, col:col+4] is
\* direction (0, 1), board[row:row+4, col] is (1, 0), board[row+i, col+i] is
\* (1, 1) and board[row-i, col+i] is (-1, 1).

\* np.all(window == player)
AllEqual(b, r, c, dr, dc, player) ==
    /\ b[r][c] = player
    /\ b[r + dr][c + dc] = player
    /\ b[r + 2 * dr][c + 2 * dc] = player
    /\ b[r + 3 * dr][c + 3 * dc] = player

\* (mutant of check_for_win) the scan of the rising diagonals starts one row late
\* and the scan of the rows stops one column early
check_for_win_short(b, player) ==
    \/ \E row \in 0 .. (BOARD_SIZE - 1), col \in 0 .. (BOARD_SIZE - 5) :
            AllEqual(b, row, col, 0, 1, player)
    \/ \E row \in 0 .. (BOARD_SIZE - 4), col \in 0 .. (BOARD_SIZE - 1) :
            AllEqual(b, row, col, 1, 0, player)
    \/ \E row \in 0 .. (BOARD_SIZE - 4), col \in 0 .. (BOARD_SIZE - 4) :
            AllEqual(b, row, col, 1, 1, player)
    \/ \E row \in 4 .. (BOARD_SIZE - 1), col \in 0 .. (BOARD_SIZE - 4) :
            AllEqual(b, row, col, -1, 1, player)

check_for_win(b, player) ==
    \/ \E row \in 0 .. (BOARD_SIZE - 1), col \in 0 .. (BOARD_SIZE - 4) :
            AllEqual(b, row, col, 0, 1, player)
    \/ \E row \in 0 .. (BOARD_SIZE - 4), col \in 0 .. (BOARD_SIZE - 1) :
            AllEqual(b, row, col, 1, 0, player)
    \/ \E row \in 0 .. (BOARD_SIZE - 4), col \in 0 .. (BOARD_SIZE - 4) :
            AllEqual(b, row, col, 1, 1, player)
    \/ \E row \in 3 .. (BOARD_SIZE - 1), col \in 0 .. (BOARD_SIZE - 4) :
            AllEqual(b, row, col, -1, 1, player)

is_valid_move(b, col) == 0 <= col /\ col < BOARD_SIZE /\ b[0][col] = EMPTY

RECURSIVE ValidFrom(_, _)
ValidFrom(b, col) ==
    IF col >= BOARD_SIZE THEN << >>
    ELSE IF is_valid_move(b, col) THEN << col >> \o ValidFrom(b, col + 1)
    ELSE ValidFrom(b, col + 1)

\* [col for col in range(BOARD_SIZE) if self.is_valid_move(col)]
get_valid_moves(b) == ValidFrom(b, 0)

\* rows of column col that hold EMPTY
EmptyRows(b, col) == { r \in Rows : b[r][col] = EMPTY }

\* (mutant of ScanRow) the scan runs from the top row down and stops at the
\* highest empty cell
ScanRowFromTop(b, col) ==
    IF EmptyRows(b, col) = {} THEN 0
    ELSE CHOOSE r \in EmptyRows(b, col) : \A q \in EmptyRows(b, col) : r <= q

\* for row in range(BOARD_SIZE - 1, -1, -1): if board[row, col] == EMPTY: ... break
\* the row the scan stops at: the lowest empty cell, or 0 (the last value of the
\* loop variable) when the column holds no empty cell
ScanRow(b, col) ==
    IF EmptyRows(b, col) = {} THEN 0
    ELSE CHOOSE r \in EmptyRows(b, col) : \A q \in EmptyRows(b, col) : q <= r

\* numpy index of an axis of length BOARD_SIZE: -BOARD_SIZE .. -1 count from the
\* end, anything else outside 0 .. BOARD_SIZE-1 raises IndexError
InIndexRange(col) == -BOARD_SIZE <= col /\ col < BOARD_SIZE
NumpyIndex(col) == IF col < 0 THEN col + BOARD_SIZE ELSE col

(***************************************************************************)
(* Evaluator                                                               *)
(***************************************************************************)
\* np.sum(window == v)
CountIn(b, r, c, dr, dc, v) ==
    (IF b[r][c] = v THEN 1 ELSE 0)
      + (IF b[r + dr][c + dc] = v THEN 1 ELSE 0)
      + (IF b[r + 2 * dr][c + 2 * dc] = v THEN 1 ELSE 0)
      + (IF b[r + 3 * dr][c + 3 * dc] = v THEN 1 ELSE 0)

Opponent(player) == IF player # P1 THEN P1 ELSE P2

\* the score of a window from the three counts the code takes of it
WindowScore(nplayer, nempty, nopponent) ==
    (IF nplayer = 4 THEN 100
     ELSE IF nplayer = 3 /\ nempty = 1 THEN 10
     ELSE IF nplayer = 2 /\ nempty = 2 THEN 5
     ELSE 0)
      - (IF nopponent = 3 /\ nempty = 1 THEN 8 ELSE 0)

evaluate_window(b, r, c, dr, dc, player) ==
    WindowScore(CountIn(b, r, c, dr, dc, player),
                CountIn(b, r, c, dr, dc, EMPTY),
                CountIn(b, r, c, dr, dc, Opponent(player)))

\* the scores evaluate_window gives the windows of one direction: start rows
\* r0 .. r0+nrows-1, start columns 0 .. ncols-1
WindowScores(b, player, r0, nrows, ncols, dr, dc) ==
    [n \in 1 .. (nrows * ncols) |->
        evaluate_window(b, r0 + ((n - 1) \div ncols), (n - 1) % ncols, dr, dc, player)]

RECURSIVE SumFrom(_, _)
SumFrom(q, n) == IF n > Len(q) THEN 0 ELSE q[n] + SumFrom(q, n + 1)

\* score += self.evaluate_window(window, player) over the windows of one direction
SumWindows(b, player, r0, nrows, ncols, dr, dc) ==
    SumFrom(WindowScores(b, player, r0, nrows, ncols, dr, dc), 1)

score_position(b, player) ==
    LET center_count == Cardinality({ r \in Rows : b[r][BOARD_SIZE \div 2] = player })
    IN  center_count * 6
          + SumWindows(b, player, 0, BOARD_SIZE, BOARD_SIZE - 3, 0, 1)
          + SumWindows(b, player, 0, BOARD_SIZE - 3, BOARD_SIZE, 1, 0)
          + SumWindows(b, player, 0, BOARD_SIZE - 3, BOARD_SIZE - 3, 1, 1)
          + SumWindows(b, player, 3, BOARD_SIZE - 3, BOARD_SIZE - 3, -1, 1)

\* np.sum(self.board == EMPTY)
EmptyCells(b) == Cardinality({ rc \in Rows \X Cols : b[rc[1]][rc[2]] = EMPTY })

\* (mutant of dynamic_depth) the comparisons are >= for >
dynamic_depth_inclusive(b) ==
    IF EmptyCells(b) >= 60 THEN 3
    ELSE IF EmptyCells(b) >= 30 THEN 4
    ELSE 5

dynamic_depth(b) ==
    IF EmptyCells(b) > 60 THEN 3
    ELSE IF EmptyCells(b) > 30 THEN 4
    ELSE 5

(***************************************************************************)
(* Search engine: minimax with alpha-beta pruning, one call frame per      *)
(* recursive call.                                                         *)
(***************************************************************************)
\* key=lambda col: abs(col - center_col)
SortKey(col) == Abs(col - BOARD_SIZE \div 2)

\* list.sort is stable: x goes behind every element whose key is <= its key
RECURSIVE InsertByKey(_, _)
InsertByKey(s, x) ==
    IF s = << >> THEN << x >>
    ELSE IF SortKey(x) < SortKey(Head(s)) THEN << x >> \o s
    ELSE << Head(s) >> \o InsertByKey(Tail(s), x)

RECURSIVE SortMoves(_)
SortMoves(s) ==
    IF s = << >> THEN << >>
    ELSE InsertByKey(SortMoves(SubSeq(s, 1, Len(s) - 1)), s[Len(s)])

\* (mutant of is_terminal) "or valid_moves" for "or not valid_moves"
is_terminal_moves_left(b) ==
    \/ check_for_win(b, P1)
    \/ check_for_win(b, P2)
    \/ check_for_win(b, AI)
    \/ get_valid_moves(b) # << >>

\* is_terminal of minimax
is_terminal(b) ==
    \/ check_for_win(b, P1)
    \/ check_for_win(b, P2)
    \/ check_for_win(b, AI)
    \/ get_valid_moves(b) = << >>

\* (mutant of LeafScore) the human win is tested before the AI win
LeafScoreHumanFirst(b) ==
    IF is_terminal(b)
    THEN IF check_for_win(b, P1) \/ check_for_win(b, P2) THEN -WIN_SCORE
         ELSE IF check_for_win(b, AI) THEN WIN_SCORE
         ELSE 0
    ELSE score_position(b, AI)

\* (mutant of LeafScore) only PlayerOne's win is tested
LeafScoreP1Only(b) ==
    IF is_terminal(b)
    THEN IF check_for_win(b, AI) THEN WIN_SCORE
         ELSE IF check_for_win(b, P1) THEN -WIN_SCORE
         ELSE 0
    ELSE score_position(b, AI)

\* (mutant of LeafScore) the draw is tested before the wins
LeafScoreDrawFirst(b) ==
    IF is_terminal(b)
    THEN IF get_valid_moves(b) = << >> THEN 0
         ELSE IF check_for_win(b, AI) THEN WIN_SCORE
         ELSE -WIN_SCORE
    ELSE score_position(b, AI)

\* (mutant of LeafScore) the two sentinels are exchanged
LeafScoreSwapped(b) ==
    IF is_terminal(b)
    THEN IF check_for_win(b, AI) THEN -WIN_SCORE
         ELSE IF check_for_win(b, P1) \/ check_for_win(b, P2) THEN WIN_SCORE
         ELSE 0
    ELSE score_position(b, AI)

\* (mutant of LeafScore) a full board nobody has won counts as lost
LeafScoreTieLost(b) ==
    IF is_terminal(b)
    THEN IF check_for_win(b, AI) THEN WIN_SCORE
         ELSE -WIN_SCORE
    ELSE score_position(b, AI)

\* the score minimax returns without exploring (depth == 0 or is_terminal)
LeafScore(b) ==
    IF is_terminal(b)
    THEN IF check_for_win(b, AI) THEN WIN_SCORE
         ELSE IF check_for_win(b, P1) \/ check_for_win(b, P2) THEN -WIN_SCORE
         ELSE 0
    ELSE score_position(b, AI)

\* (mutant of ActingHuman) a tie goes to P1
ActingHumanTieToFirst(b) ==
    IF score_position(b, P1) >= score_position(b, P2) THEN P1 ELSE P2

\* the human marker the minimizing step places
ActingHuman(b) == IF score_position(b, P1) > score_position(b, P2) THEN P1 ELSE P2

\* the speculative placement: the scan sets the lowest empty cell of col and
\* leaves the board alone when it finds none
Simulate(b, col, marker) ==
    IF b[ScanRow(b, col)][col] = EMPTY
    THEN SetCell(b, ScanRow(b, col), col, marker)
    ELSE b

(***************************************************************************)
(* Boards the model starts from: a full board on which no marker has four  *)
(* in a row, with the top cell removed from some of the columns of         *)
(* OpenCols.  Every one of them obeys gravity, so a sequence of make_move  *)
(* calls builds it from the empty board.  Below the removed cell column 4  *)
(* holds three AI markers, column 5 three P1 markers and column 6 three P2 *)
(* markers.                                                                *)
(***************************************************************************)
OpenCols == {4, 5, 6}

PatternCell(r, c) == ((c + ((r + 2) \div 3)) % 3) + 1

GapBoard(g) ==
    [r \in Rows |-> [c \in Cols |->
        IF c \in OpenCols /\ r < g[c] THEN EMPTY ELSE PatternCell(r, c)]]

InitBoards ==
    { GapBoard([c \in OpenCols |-> IF c \in S THEN 1 ELSE 0]) : S \in SUBSET OpenCols }

\* column arguments of make_move: every index of the board, every negative
\* index numpy accepts, and one index beyond each end
MoveCols == (-BOARD_SIZE - 1) .. BOARD_SIZE

\* alpha and beta arguments of a top-level call
AlphaBetaValues == {NegInf, 0, PosInf}

VARIABLES
    board,      \* self.board
    stack,      \* call frames of minimax, innermost first
    ret,        \* value returned by the call that completed last
    call,       \* arguments of the outermost minimax call
    pruned,     \* some frame of the outermost call left its loop by break
    last_two_players,       \* self.last_two_players
    current_turn_index,     \* self.current_turn_index
    log,        \* the markers the turn sequencer has returned, oldest first
    driver      \* the locals of game() and its position in the loop

vars == << board, stack, ret, call, pruned,
           last_two_players, current_turn_index, log, driver >>

\* what the board operations and the search never touch
gamevars == << last_two_players, current_turn_index, log, driver >>

\* self.turn_order
turn_order == << P1, P2, AI >>

\* game(): pc is the position in the loop ("idle" outside game()), turns counts
\* the iterations completed and empty0 the empty cells of the first board
Driver(pc, use_normal_turns, current_player, turns, empty0, result) ==
    [pc |-> pc, use_normal_turns |-> use_normal_turns,
     current_player |-> current_player, turns |-> turns, empty0 |-> empty0,
     result |-> result]

IdleDriver == Driver("idle", FALSE, EMPTY, 0, 0, "none")

\* lines 31-33 of __init__, and game() not started
FreshGame ==
    /\ last_two_players = << >>
    /\ current_turn_index = 0
    /\ log = << >>
    /\ driver = IdleDriver

NoRet == [op |-> "none"]
NoCall == [op |-> "none"]

MinimaxResult(column, score) == [op |-> "minimax", column |-> column, score |-> score]

\* the frame of a call that has not run its first statement
NewFrame(depth, alpha, beta, maximizing_player, b) ==
    [pc |-> "enter", depth |-> depth, alpha |-> alpha, beta |-> beta,
     maximizing_player |-> maximizing_player,
     valid_moves |-> << >>, k |-> 0, value |-> 0, column |-> None, row |-> 0,
     entry |-> b]

Init ==
    /\ board \in InitBoards
    /\ stack = << >>
    /\ ret = NoRet
    /\ call = NoCall
    /\ pruned = FALSE
    /\ FreshGame

\* game.make_move(col, player)
MakeMove(col, player) ==
    /\ stack = << >>
    /\ IF ~InIndexRange(col)
       THEN /\ board' = board
            /\ ret' = [op |-> "make_move", col |-> col, player |-> player,
                       outcome |-> "IndexError"]
       ELSE IF EmptyRows(board, NumpyIndex(col)) # {}
       THEN /\ board' = SetCell(board, ScanRow(board, NumpyIndex(col)),
                                NumpyIndex(col), player)
            /\ ret' = [op |-> "make_move", col |-> col, player |-> player,
                       outcome |-> "True"]
       ELSE /\ board' = board
            /\ ret' = [op |-> "make_move", col |-> col, player |-> player,
                       outcome |-> "False"]
    /\ call' = NoCall
    /\ pruned' = FALSE
    /\ UNCHANGED << stack, gamevars >>

\* game.minimax(depth, alpha, beta, maximizing_player) called from outside
TopCall(depth, alpha, beta, maximizing_player) ==
    /\ stack = << >>
    /\ stack' = << NewFrame(depth, alpha, beta, maximizing_player, board) >>
    /\ call' = [op |-> "minimax", depth |-> depth, alpha |-> alpha, beta |-> beta,
                maximizing_player |-> maximizing_player]
    /\ ret' = NoRet
    /\ pruned' = FALSE
    /\ UNCHANGED << board, gamevars >>

\* lines 219-240 and 262-263: the first statements of a call.  When depth is 0 or
\* the board is terminal the call returns its score without exploring; otherwise
\* it orders the moves and initialises value and column.
Enter ==
    /\ stack # << >>
    /\ Head(stack).pc = "enter"
    /\ IF Head(stack).depth = 0 \/ is_terminal(board)
       THEN /\ stack' = Tail(stack)
            /\ ret' = MinimaxResult(None, LeafScore(board))
       ELSE /\ LET f == Head(stack)
                   moves == SortMoves(get_valid_moves(board))
               IN  stack' = << [f EXCEPT !.pc = "loop",
                                         !.valid_moves = moves,
                                         !.k = 1,
                                         !.value = IF f.maximizing_player
                                                   THEN NegInf ELSE PosInf,
                                         !.column = Some(moves[1])] >> \o Tail(stack)
            /\ ret' = ret
    /\ UNCHANGED << board, call, pruned, gamevars >>

\* lines 242-249 and 265-273: place a marker in the next column and recurse
Place ==
    /\ stack # << >>
    /\ Head(stack).pc = "loop"
    /\ LET f == Head(stack)
           col == f.valid_moves[f.k]
       IN  /\ board' = Simulate(board, col,
                                IF f.maximizing_player THEN AI ELSE ActingHuman(board))
           /\ stack' = << NewFrame(f.depth - 1, f.alpha, f.beta,
                                   ~f.maximizing_player, board'),
                          [f EXCEPT !.pc = "wait", !.row = ScanRow(board, col)] >>
                       \o Tail(stack)
    /\ ret' = NoRet
    /\ UNCHANGED << call, pruned, gamevars >>

\* (mutant of AfterChild) the comparisons are >= and <=, so the last of several
\* equally good columns is kept
AfterChildLastFound(f, new_score) ==
    LET better == IF f.maximizing_player THEN new_score >= f.value
                  ELSE new_score <= f.value
        value == IF better THEN new_score ELSE f.value
    IN  [f EXCEPT !.value = value,
                  !.column = IF better THEN Some(f.valid_moves[f.k]) ELSE f.column,
                  !.alpha = IF f.maximizing_player THEN Max(f.alpha, value) ELSE f.alpha,
                  !.beta = IF f.maximizing_player THEN f.beta ELSE Min(f.beta, value)]

\* the frame after lines 251-256 / 275-280 ran on the score the callee returned
AfterChild(f, new_score) ==
    LET better == IF f.maximizing_player THEN new_score > f.value
                  ELSE new_score < f.value
        value == IF better THEN new_score ELSE f.value
    IN  [f EXCEPT !.value = value,
                  !.column = IF better THEN Some(f.valid_moves[f.k]) ELSE f.column,
                  !.alpha = IF f.maximizing_player THEN Max(f.alpha, value) ELSE f.alpha,
                  !.beta = IF f.maximizing_player THEN f.beta ELSE Min(f.beta, value)]

\* if alpha >= beta: break
Cutoff(f) == f.alpha >= f.beta

\* (mutant of UndoMove) the undo scans the column again instead of using the
\* row of the placement
UndoMoveRescan(b, f) ==
    SetCell(b, ScanRow(b, f.valid_moves[f.k]), f.valid_moves[f.k], EMPTY)

\* self.board[row, col] = EMPTY
UndoMove(b, f) == SetCell(b, f.row, f.valid_moves[f.k], EMPTY)

\* lines 251-258 / 275-282, the loop goes on with the next column
Backtrack ==
    /\ stack # << >>
    /\ Head(stack).pc = "wait"
    /\ ret # NoRet
    /\ LET f == Head(stack)
           g == AfterChild(f, ret.score)
       IN  /\ ~Cutoff(g)
           /\ f.k < Len(f.valid_moves)
           /\ board' = UndoMove(board, f)
           /\ stack' = << [g EXCEPT !.pc = "loop", !.k = f.k + 1] >> \o Tail(stack)
    /\ ret' = NoRet
    /\ UNCHANGED << call, pruned, gamevars >>

\* lines 251-259 / 275-283, the loop ends (break or last column) and the call returns
Return ==
    /\ stack # << >>
    /\ Head(stack).pc = "wait"
    /\ ret # NoRet
    /\ LET f == Head(stack)
           g == AfterChild(f, ret.score)
       IN  /\ Cutoff(g) \/ f.k = Len(f.valid_moves)
           /\ board' = UndoMove(board, f)
           /\ stack' = Tail(stack)
           /\ ret' = MinimaxResult(g.column, g.value)
           /\ pruned' = (pruned \/ (Cutoff(g) /\ f.k < Len(f.valid_moves)))
    /\ UNCHANGED << call, gamevars >>

Next ==
    \/ \E col \in MoveCols, player \in Players : MakeMove(col, player)
    \/ \E depth \in 0 .. MaxDepth, alpha \in AlphaBetaValues, beta \in AlphaBetaValues,
          maximizing_player \in BOOLEAN :
            TopCall(depth, alpha, beta, maximizing_player)
    \/ Enter
    \/ Place
    \/ Backtrack
    \/ Return

Spec == Init /\ [][Next]_vars

(***************************************************************************)
(* The winning-move scenario: the board is empty except for three AI       *)
(* markers in the lowest cells of column 5, and the search is called as    *)
(* the driver calls it, with each depth dynamic_depth can return.          *)
(***************************************************************************)
StackedBoard ==
    [r \in Rows |-> [c \in Cols |->
        IF c = 5 /\ r >= BOARD_SIZE - 3 THEN AI ELSE EMPTY]]

\* the depths dynamic_depth returns
ConfiguredDepths == {3, 4, 5}

InitWin ==
    /\ board = StackedBoard
    /\ stack = << >>
    /\ ret = NoRet
    /\ call = NoCall
    /\ pruned = FALSE
    /\ FreshGame

\* line 361: game.minimax(depth, float('-inf'), float('inf'), True)
DriverCall(depth) == TopCall(depth, NegInf, PosInf, TRUE)

NextWin ==
    \/ \E depth \in ConfiguredDepths : DriverCall(depth)
    \/ Enter
    \/ Place
    \/ Backtrack
    \/ Return

SpecWin == InitWin /\ [][NextWin]_vars

(***************************************************************************)
(* A deeper endgame: every open column has two empty cells, so that        *)
(* markers stack inside the search; one make_move call may precede the     *)
(* search.                                                                 *)
(***************************************************************************)
DeepBoard == GapBoard([c \in OpenCols |-> 2])

InitDeep ==
    /\ board = DeepBoard
    /\ stack = << >>
    /\ ret = NoRet
    /\ call = NoCall
    /\ pruned = FALSE
    /\ FreshGame

EarlyMove(col, player) ==
    /\ board = DeepBoard
    /\ MakeMove(col, player)

NextDeep ==
    \/ \E col \in MoveCols, player \in Players : EarlyMove(col, player)
    \/ \E depth \in 0 .. MaxDepth, alpha \in AlphaBetaValues, beta \in AlphaBetaValues,
          maximizing_player \in BOOLEAN :
            TopCall(depth, alpha, beta, maximizing_player)
    \/ Enter
    \/ Place
    \/ Backtrack
    \/ Return

SpecDeep == InitDeep /\ [][NextDeep]_vars

(***************************************************************************)
(* Turn sequencer: the two policies of "who acts next".  game() reads the  *)
(* mode once (line 347) and calls the same policy on every iteration, so a *)
(* run of calls is a run of one policy from a fresh object.                *)
(***************************************************************************)
\* largest number of sequencer calls in one run
MaxCalls == 9

\* (mutant of RandomChoices) the draw is never restricted
RandomChoicesUnrestricted(last) == Players

\* the list random.choice draws from (lines 292-299); last[-1] is the newest
RandomChoices(last) ==
    IF Len(last) < 2 THEN Players
    ELSE IF last[Len(last)] = last[Len(last) - 1]
         THEN { p \in Players : p # last[Len(last)] }
         ELSE Players

\* if len(self.last_two_players) > 2: self.last_two_players.pop(0)
KeepLastTwo(last) == IF Len(last) > 2 THEN Tail(last) ELSE last

\* the method, for each outcome next_player of random.choice
get_next_player_random(next_player) ==
    /\ next_player \in RandomChoices(last_two_players)
    /\ last_two_players' = KeepLastTwo(Append(last_two_players, next_player))
    /\ log' = Append(log, next_player)
    /\ UNCHANGED current_turn_index

\* (mutant of NextIndex) the index wraps one position early
NextIndexWrapEarly(i) == (i + 1) % (Len(turn_order) - 1)

\* (self.current_turn_index + 1) % len(self.turn_order)
NextIndex(i) == (i + 1) % Len(turn_order)

\* the method; player is the marker it returns (Python lists count from 0)
get_next_player(player) ==
    /\ player = turn_order[current_turn_index + 1]
    /\ current_turn_index' = NextIndex(current_turn_index)
    /\ log' = Append(log, player)
    /\ UNCHANGED last_two_players

SequencerResult(op, player) == [op |-> op, player |-> player]

\* game.get_next_player() called on its own
CallNextPlayer(player) ==
    /\ driver.pc = "idle"
    /\ driver.use_normal_turns
    /\ Len(log) < MaxCalls
    /\ get_next_player(player)
    /\ ret' = SequencerResult("get_next_player", player)
    /\ UNCHANGED << board, stack, call, pruned, driver >>

\* game.get_next_player_random() called on its own
CallNextPlayerRandom(next_player) ==
    /\ driver.pc = "idle"
    /\ ~driver.use_normal_turns
    /\ Len(log) < MaxCalls
    /\ get_next_player_random(next_player)
    /\ ret' = SequencerResult("get_next_player_random", next_player)
    /\ UNCHANGED << board, stack, call, pruned, driver >>

\* a fresh object, and the mode read at line 347
InitSeq ==
    /\ board = EmptyBoard
    /\ stack = << >>
    /\ ret = NoRet
    /\ call = NoCall
    /\ pruned = FALSE
    /\ last_two_players = << >>
    /\ current_turn_index = 0
    /\ log = << >>
    /\ driver \in { Driver("idle", mode, EMPTY, 0, 0, "none") : mode \in BOOLEAN }

NextSeq ==
    \/ \E player \in Players : CallNextPlayer(player)
    \/ \E next_player \in Players : CallNextPlayerRandom(next_player)

SpecSeq == InitSeq /\ [][NextSeq]_vars

(***************************************************************************)
(* The blocking scenario: P1 holds the three leftmost cells of the bottom  *)
(* row, so that the fourth cell of the row is the one open extension; on   *)
(* the second board P2 also holds a block of two by two cells, which has   *)
(* no three in a line.  Both boards arise in a game under the random turn  *)
(* policy (P1 and P2 alternate before the first AI turn).  The search is   *)
(* called as the driver calls it.                                          *)
(***************************************************************************)
ThreeBoard ==
    [r \in Rows |-> [c \in Cols |->
        IF r = BOARD_SIZE - 1 /\ c \in 0 .. 2 THEN P1 ELSE EMPTY]]

ThreeAndPairsBoard ==
    [r \in Rows |-> [c \in Cols |->
        IF r = BOARD_SIZE - 1 /\ c \in 0 .. 2 THEN P1
        ELSE IF r >= BOARD_SIZE - 2 /\ c \in 6 .. 7 THEN P2
        ELSE EMPTY]]

BlockBoards == { ThreeBoard, ThreeAndPairsBoard }

InitBlock ==
    /\ board \in BlockBoards
    /\ stack = << >>
    /\ ret = NoRet
    /\ call = NoCall
    /\ pruned = FALSE
    /\ FreshGame

\* lines 360-361: depth = game.dynamic_depth(); game.minimax(depth, -inf, inf, True)
PolicyCall == DriverCall(dynamic_depth(board))

NextBlock ==
    \/ PolicyCall
    \/ Enter
    \/ Place
    \/ Backtrack
    \/ Return

SpecBlock == InitBlock /\ [][NextBlock]_vars

(***************************************************************************)
(* The depth policy along a game: from the empty board the pieces are      *)
(* dropped level by level (a column never gets more than one piece ahead   *)
(* of another), with the markers of PatternCell, so that no board has      *)
(* four in a row and every number of empty cells from 100 to 0 occurs.     *)
(***************************************************************************)
\* the number of pieces in column col
Height(b, col) == BOARD_SIZE - Cardinality(EmptyRows(b, col))

\* game.make_move(col, marker) on a column that is not ahead of another
FillMove(col) ==
    /\ driver.pc = "idle"
    /\ is_valid_move(board, col)
    /\ \A c \in Cols : Height(board, col) <= Height(board, c)
    /\ MakeMove(col, PatternCell(ScanRow(board, col), col))

\* game.dynamic_depth() called on its own
CallDynamicDepth ==
    /\ stack = << >>
    /\ ret' = [op |-> "dynamic_depth", depth |-> dynamic_depth(board)]
    /\ call' = NoCall
    /\ pruned' = FALSE
    /\ UNCHANGED << board, stack, gamevars >>

InitFill ==
    /\ board = EmptyBoard
    /\ stack = << >>
    /\ ret = NoRet
    /\ call = NoCall
    /\ pruned = FALSE
    /\ FreshGame

NextFill ==
    \/ \E col \in Cols : FillMove(col)
    \/ CallDynamicDepth

SpecFill == InitFill /\ [][NextFill]_vars

(***************************************************************************)
(* Boards for win detection: a full board without four in a row (the       *)
(* pattern, or the pattern with its markers rotated) on which the cells of *)
(* one line of three or four cells, anywhere and in any of the four        *)
(* directions, are overwritten with one marker.  make_move calls build any *)
(* full board column by column.                                            *)
(***************************************************************************)
Directions == { << 0, 1 >>, << 1, 0 >>, << 1, 1 >>, << -1, 1 >> }

RotatedCell(r, c, k) == ((PatternCell(r, c) - 1 + k) % 3) + 1

\* the cell (rr, cc) is one of the n cells from (r, c) in direction (dr, dc)
OnLine(rr, cc, r, c, dr, dc, n) ==
    \E i \in 0 .. (n - 1) : rr = r + i * dr /\ cc = c + i * dc

LineBoard(k, r, c, dr, dc, n, player) ==
    [rr \in Rows |-> [cc \in Cols |->
        IF OnLine(rr, cc, r, c, dr, dc, n) THEN player ELSE RotatedCell(rr, cc, k)]]

LineBoards ==
    { LineBoard(k, r, c, d[1], d[2], n, player) :
        k \in 0 .. 1, r \in Rows, c \in Cols, d \in Directions, n \in 3 .. 4,
        player \in Players }

\* game.check_for_win(player) called on its own
CallCheckForWin(player) ==
    /\ stack = << >>
    /\ ret' = [op |-> "check_for_win", player |-> player,
               result |-> check_for_win(board, player)]
    /\ call' = NoCall
    /\ pruned' = FALSE
    /\ UNCHANGED << board, stack, gamevars >>

InitLines ==
    /\ board \in LineBoards
    /\ stack = << >>
    /\ ret = NoRet
    /\ call = NoCall
    /\ pruned = FALSE
    /\ FreshGame

NextLines == \E player \in Players : CallCheckForWin(player)

SpecLines == InitLines /\ [][NextLines]_vars

(***************************************************************************)
(* The game loop of game() (lines 349-385).  A run starts at the top of    *)
(* the loop in an endgame the loop reaches: a board of InitBoards with an  *)
(* empty cell and the sequencer state that goes with it.  Under the random *)
(* policy each such board is reached with each pair of last two markers;   *)
(* under the fixed rotation the boards with column 6, columns 5 and 6, or  *)
(* columns 4, 5 and 6 open are reached, with the index that the number of  *)
(* pieces gives (game sequences for each were replayed on the source).     *)
(***************************************************************************)
\* the columns a human may type, after the - 1 of line 368: every column of the
\* board and one value beyond each end
InputCols == -1 .. BOARD_SIZE

\* the open columns of the boards reached under the fixed rotation
RotationStarts == { {6}, {5, 6}, {4, 5, 6} }

TopBoard(S) == GapBoard([c \in OpenCols |-> IF c \in S THEN 1 ELSE 0])

\* (mutant of GameOver) only AI's win is tested
GameOverAiOnly(b, current_player) ==
    IF check_for_win(b, AI) THEN "win"
    ELSE IF get_valid_moves(b) = << >> THEN "tie"
    ELSE "none"

\* (mutant of GameOver) the tie test is missing
GameOverNoTie(b, current_player) ==
    IF check_for_win(b, current_player) THEN "win" ELSE "none"

\* lines 377-385: how the iteration ends
GameOver(b, current_player) ==
    IF check_for_win(b, current_player) THEN "win"
    ELSE IF get_valid_moves(b) = << >> THEN "tie"
    ELSE "none"

\* the board after make_move(col, player), for a column of the board
Dropped(b, col, player) ==
    IF EmptyRows(b, col) # {} THEN SetCell(b, ScanRow(b, col), col, player) ELSE b

InitGame ==
    /\ stack = << >>
    /\ ret = NoRet
    /\ call = NoCall
    /\ pruned = FALSE
    /\ log = << >>
    /\ \/ /\ board \in { TopBoard(S) : S \in (SUBSET OpenCols) \ {{}} }
          /\ last_two_players \in { << p, q >> : p \in Players, q \in Players }
          /\ current_turn_index = 0
          /\ driver = Driver("top", FALSE, EMPTY, 0, EmptyCells(board), "none")
       \/ /\ board \in { TopBoard(S) : S \in RotationStarts }
          /\ last_two_players = << >>
          /\ current_turn_index = (BOARD_SIZE * BOARD_SIZE - EmptyCells(board)) % 3
          /\ driver = Driver("top", TRUE, EMPTY, 0, EmptyCells(board), "none")

\* lines 350-357: the sequencer names the player of this iteration
StartTurn(player) ==
    /\ driver.pc = "top"
    /\ IF driver.use_normal_turns
       THEN get_next_player(player)
       ELSE get_next_player_random(player)
    /\ driver' = [driver EXCEPT !.pc = "turn", !.current_player = player]
    /\ ret' = SequencerResult(IF driver.use_normal_turns THEN "get_next_player"
                              ELSE "get_next_player_random", player)
    /\ call' = NoCall
    /\ pruned' = FALSE
    /\ UNCHANGED << board, stack >>

\* lines 359-361: the AI's turn starts the search
AiSearch ==
    /\ driver.pc = "turn"
    /\ driver.current_player = AI
    /\ call = NoCall
    /\ DriverCall(dynamic_depth(board))

\* lines 362-364: the search has returned; the piece is placed unless col is None
AiMove ==
    /\ driver.pc = "turn"
    /\ driver.current_player = AI
    /\ stack = << >>
    /\ call.op = "minimax"
    /\ ret.op = "minimax"
    /\ board' = IF ret.column # None THEN Dropped(board, ret.column[1], AI) ELSE board
    /\ driver' = [driver EXCEPT !.pc = "check"]
    /\ ret' = [op |-> "ai_move", column |-> ret.column]
    /\ UNCHANGED << stack, call, pruned, last_two_players, current_turn_index, log >>

\* lines 366-371: a human types a legal column
HumanMove(col) ==
    /\ driver.pc = "turn"
    /\ driver.current_player # AI
    /\ is_valid_move(board, col)
    /\ board' = Dropped(board, col, driver.current_player)
    /\ driver' = [driver EXCEPT !.pc = "check"]
    /\ ret' = [op |-> "human_move", col |-> col]
    /\ UNCHANGED << stack, call, pruned, last_two_players, current_turn_index, log >>

\* lines 372-375: the column is not legal, the human is asked again
HumanRetry(col) ==
    /\ driver.pc = "turn"
    /\ driver.current_player # AI
    /\ ~is_valid_move(board, col)
    /\ ret' = [op |-> "invalid_move", col |-> col]
    /\ UNCHANGED << board, stack, call, pruned, gamevars >>

\* lines 377-385: the loop ends with a win or a tie, or goes on
CheckEnd ==
    /\ driver.pc = "check"
    /\ driver' = [driver EXCEPT
                    !.pc = IF GameOver(board, driver.current_player) = "none"
                           THEN "top" ELSE "done",
                    !.result = GameOver(board, driver.current_player),
                    !.turns = driver.turns + 1]
    /\ UNCHANGED << board, stack, ret, call, pruned, last_two_players,
                    current_turn_index, log >>

\* every step but a rejected input
GameProgress ==
    \/ \E player \in Players : StartTurn(player)
    \/ AiSearch
    \/ Enter
    \/ Place
    \/ Backtrack
    \/ Return
    \/ AiMove
    \/ \E col \in InputCols : HumanMove(col)
    \/ CheckEnd

NextGame ==
    \/ \E player \in Players : StartTurn(player)
    \/ AiSearch
    \/ Enter
    \/ Place
    \/ Backtrack
    \/ Return
    \/ AiMove
    \/ \E col \in InputCols : HumanMove(col)
    \/ \E col \in InputCols : HumanRetry(col)
    \/ CheckEnd

SpecGame == InitGame /\ [][NextGame]_vars

\* the program keeps running, and each human turn eventually gets a legal column
SpecGameFair == InitGame /\ [][NextGame]_vars /\ WF_vars(GameProgress)

(***************************************************************************)
(* Properties                                                              *)
(***************************************************************************)
\* an outermost call has completed and nothing was called since
Returned == stack = << >> /\ call.op = "minimax" /\ ret.op = "minimax"

\* the outermost call was the driver's: alpha = -inf, beta = +inf, maximizing
FullWindow == call.alpha = NegInf /\ call.beta = PosInf /\ call.maximizing_player

\* the innermost call is at its first statement
AtEntry == stack # << >> /\ Head(stack).pc = "enter"

SomeWin(b) == check_for_win(b, P1) \/ check_for_win(b, P2) \/ check_for_win(b, AI)

\* C1: when a call to minimax returns, at any depth, with any alpha and beta,
\* maximizing or minimizing, after the last column or after a cut, the board
\* is cell for cell the board the call was entered with.
C1_BoardRestored ==
    [][(stack # << >> /\ Len(stack') < Len(stack)) => board' = Head(stack).entry]_vars

\* an outermost call that explored moves, and in which some loop was cut by
\* alpha >= beta, has returned
C1_Witness == Returned /\ ret.column # None /\ pruned /\ call.depth >= 2

\* C2: in every state, those inside the search between a placement and its
\* undo included, every cell above an EMPTY cell of the same column is EMPTY.
C2_Gravity ==
    \A c \in Cols : \A r \in 1 .. (BOARD_SIZE - 1) :
        board[r][c] = EMPTY => board[r - 1][c] = EMPTY

\* inside the search, a column that had two empty cells has been filled to the top
C2_Witness ==
    /\ Len(stack) >= 2
    /\ \E c \in OpenCols : DeepBoard[1][c] = EMPTY /\ board[0][c] # EMPTY

\* exhaustive minimax of the same depth: same move order, same first-found
\* tie-break, same acting human, no alpha, no beta, no cut.  (The singleton
\* sets bind the move order, the marker and the scores of the columns, so that
\* each is computed once per node.)
\* of the pairs << position in the move order, score >>, the one the loop keeps:
\* the best score, and the earliest position among equal scores
FirstBest(scored, maximizing_player) ==
    CHOOSE p \in scored : \A q \in scored :
        \/ IF maximizing_player THEN q[2] < p[2] ELSE q[2] > p[2]
        \/ q[2] = p[2] /\ p[1] <= q[1]

RECURSIVE FullWidth(_, _, _)
FullWidth(b, depth, maximizing_player) ==
    IF depth = 0 \/ is_terminal(b)
    THEN MinimaxResult(None, LeafScore(b))
    ELSE CHOOSE result \in
            { MinimaxResult(Some(moves[FirstBest(scored, maximizing_player)[1]]),
                            FirstBest(scored, maximizing_player)[2]) :
                moves \in { SortMoves(get_valid_moves(b)) },
                scored \in
                  { { << k, FullWidth(Simulate(b, order[k], marker), depth - 1,
                                      ~maximizing_player).score >> :
                        k \in 1 .. Len(order) } :
                      order \in { SortMoves(get_valid_moves(b)) },
                      marker \in { IF maximizing_player THEN AI ELSE ActingHuman(b) } } } :
            TRUE

\* C3: the column and the score that minimax returns for alpha = -inf,
\* beta = +inf, maximizing = true are those of the exhaustive search of the
\* same depth on the same board.
C3_AlphaBetaEquivalence ==
    (Returned /\ FullWindow) => ret = FullWidth(board, call.depth, TRUE)

\* such a call of depth 3 or more has returned a column after cutting some loop
C3_Witness == Returned /\ FullWindow /\ call.depth >= 3 /\ ret.column # None /\ pruned

\* the only step from an idle state to an idle state is a make_move call
MakeMoveStep == stack = << >> /\ stack' = << >> /\ ret'.op = "make_move"

\* C4 as claimed: for every board with a legal column, the driver's call
\* (alpha = -inf, beta = +inf, maximizing, depth from dynamic_depth) returns a
\* column that is not None.
C4_ColumnWheneverLegal ==
    (Returned /\ FullWindow /\ call.depth = dynamic_depth(board)
       /\ get_valid_moves(board) # << >>)
        => ret.column # None

\* C4 as amended: for every board with a legal column on which no marker has
\* four in a row, the driver's call returns a column that is not None.
C4_ColumnWhenNotTerminal ==
    (Returned /\ FullWindow /\ call.depth = dynamic_depth(board)
       /\ get_valid_moves(board) # << >> /\ ~SomeWin(board))
        => ret.column # None

\* the driver's call has returned a column on a board nobody has won
C4_Witness ==
    /\ Returned /\ FullWindow /\ call.depth = dynamic_depth(board)
    /\ get_valid_moves(board) # << >> /\ ~SomeWin(board)
    /\ ret.column # None

\* C5: a search called on a board without a legal column does not return a
\* result (it fails instead).
C5_NoResultWithoutLegalColumn ==
    ~(Returned /\ get_valid_moves(board) = << >>)

\* C6: a make_move call with a column outside 0 .. BOARD_SIZE-1 leaves the
\* board unchanged and ends in an error, not in True or False.
C6_ColumnValidated ==
    [][(MakeMoveStep /\ ret'.col \notin Cols)
         => (board' = board /\ ret'.outcome = "IndexError")]_vars

\* C7: a call entered on a board where AI has four in a row returns
\* (None, +1000000) at its first step, whatever depth, alpha, beta and
\* maximizing flag it was given, and leaves the board alone.
C7_ComputerWinSentinel ==
    [][(AtEntry /\ check_for_win(board, AI))
         => /\ stack' = Tail(stack)
            /\ ret' = MinimaxResult(None, WIN_SCORE)
            /\ board' = board]_vars

\* an outermost call of positive depth has returned the AI sentinel on a board
\* AI has won
C7_Witness ==
    /\ Returned /\ call.depth > 0
    /\ check_for_win(board, AI)
    /\ ret = MinimaxResult(None, WIN_SCORE)

\* C8 as claimed: a call entered on a board where P1 or P2 has four in a row
\* returns the score -1000000.
C8_HumanWinSentinel ==
    [][(AtEntry /\ (check_for_win(board, P1) \/ check_for_win(board, P2)))
         => /\ stack' = Tail(stack)
            /\ ret'.score = -WIN_SCORE]_vars

\* C8 as amended: a call entered on a board where P1 or P2 has four in a row
\* and AI has not returns the score -1000000.
C8_HumanWinSentinelUnlessComputer ==
    [][(AtEntry /\ (check_for_win(board, P1) \/ check_for_win(board, P2))
          /\ ~check_for_win(board, AI))
         => /\ stack' = Tail(stack)
            /\ ret'.score = -WIN_SCORE]_vars

\* an outermost call of positive depth has returned the human sentinel on a
\* board P2 alone has won
C8_Witness ==
    /\ Returned /\ call.depth > 0
    /\ check_for_win(board, P2) /\ ~check_for_win(board, P1) /\ ~check_for_win(board, AI)
    /\ ret = MinimaxResult(None, -WIN_SCORE)

\* C9: a call entered on a board without a legal column returns 0 exactly when
\* no marker has four in a row; when some marker has, it returns the sentinel
\* of a marker that has four in a row.
C9_WinBeforeDraw ==
    [][(AtEntry /\ get_valid_moves(board) = << >>)
         => /\ stack' = Tail(stack)
            /\ (ret'.score = 0) <=> ~SomeWin(board)
            /\ SomeWin(board) =>
                 \/ ret'.score = WIN_SCORE /\ check_for_win(board, AI)
                 \/ ret'.score = -WIN_SCORE
                      /\ (check_for_win(board, P1) \/ check_for_win(board, P2))]_vars

\* a call has returned a sentinel on a full board that some marker has won
C9_Witness ==
    /\ Returned
    /\ get_valid_moves(board) = << >> /\ SomeWin(board)
    /\ ret.score # 0

\* C10: on the board with three AI markers at the bottom of column 5 and
\* nothing else, the driver's call returns column 5 for each depth 3, 4, 5.
C10_WinningMove ==
    (Returned /\ FullWindow /\ board = StackedBoard /\ call.depth \in ConfiguredDepths)
        => ret.column = Some(5)

\* the call of depth 5 has returned column 5 with the AI sentinel
C10_Witness ==
    /\ Returned /\ FullWindow /\ board = StackedBoard /\ call.depth = 5
    /\ ret = MinimaxResult(Some(5), WIN_SCORE)

\* the cell (r, c) is empty and a piece dropped in column c lands in it
Playable(b, r, c) ==
    /\ r \in Rows /\ c \in Cols
    /\ b[r][c] = EMPTY
    /\ (r = BOARD_SIZE - 1 \/ b[r + 1][c] # EMPTY)

\* the threats of a board: << m, r, c >> when the cell (r, c) is empty and
\* marker m in it would give m four in a row
Threats(b) ==
    { t \in Players \X Rows \X Cols :
        /\ b[t[2]][t[3]] = EMPTY
        /\ check_for_win(SetCell(b, t[2], t[3], t[1]), t[1]) }

\* P1 has three contiguous markers in row r from column c, and x is the column
\* of the one open cell next to them
ThreeWithOpenCell(b, r, c, x) ==
    /\ c + 2 \in Cols
    /\ b[r][c] = P1 /\ b[r][c + 1] = P1 /\ b[r][c + 2] = P1
    /\ x \in {c - 1, c + 3}
    /\ Playable(b, r, x)
    /\ \A y \in {c - 1, c + 3} \ {x} : ~Playable(b, r, y)

\* the blocking scenario with open column x: nobody has won, P1 has three in a
\* row with the one open extension in column x, that cell is the only threat
\* on the board, and no AI placement wins at once
BlockingScenario(b, x) ==
    /\ ~SomeWin(b)
    /\ \E r \in Rows, c \in Cols :
          /\ ThreeWithOpenCell(b, r, c, x)
          /\ Threats(b) = { << P1, r, x >> }
    /\ \A col \in Cols : is_valid_move(b, col) => ~check_for_win(Simulate(b, col, AI), AI)

\* C11: on a board of the blocking scenario the driver's call (depth from
\* dynamic_depth) returns the column of the open cell.
C11_BlocksOpenCell ==
    (Returned /\ FullWindow /\ call.depth = dynamic_depth(board))
        => \A x \in Cols : BlockingScenario(board, x) => ret.column = Some(x)

\* C12: in a run of get_next_player_random calls from a fresh object, whatever
\* random.choice draws, no marker is returned by three calls in a row.
C12_NoThreeInARow ==
    ~driver.use_normal_turns =>
        \A k \in 1 .. (Len(log) - 2) : ~(log[k] = log[k + 1] /\ log[k + 1] = log[k + 2])

\* a marker was returned twice in a row and the next call returned another one
C12_Witness ==
    /\ ~driver.use_normal_turns
    /\ \E k \in 1 .. (Len(log) - 2) : log[k] = log[k + 1] /\ log[k + 2] # log[k + 1]

\* C13: in a run of get_next_player_random calls, two calls in a row never
\* return the same marker.
C13_NeverTwiceInARow ==
    ~driver.use_normal_turns =>
        \A k \in 1 .. (Len(log) - 1) : log[k] # log[k + 1]

\* C14: the k-th call of get_next_player from a fresh object returns P1, P2, AI,
\* P1, ... in that cyclic order, the first 9 calls return each marker 3 times,
\* and current_turn_index stays within 0 .. 2.
C14_FixedRotation ==
    driver.use_normal_turns =>
        /\ \A k \in 1 .. Len(log) : log[k] = << P1, P2, AI >>[((k - 1) % 3) + 1]
        /\ current_turn_index \in 0 .. 2
        /\ Len(log) >= 9 =>
              \A p \in Players : Cardinality({ k \in 1 .. 9 : log[k] = p }) = 3

\* nine calls of get_next_player have returned
C14_Witness == driver.use_normal_turns /\ Len(log) = 9 /\ ret.op = "get_next_player"

\* the empty cells of a board, counted from the heights of its columns
RECURSIVE HeightsFrom(_, _)
HeightsFrom(b, col) ==
    IF col >= BOARD_SIZE THEN 0 ELSE Height(b, col) + HeightsFrom(b, col + 1)

EmptyCount(b) == BOARD_SIZE * BOARD_SIZE - HeightsFrom(b, 0)

\* C15: dynamic_depth returns 3 on a board with more than 60 empty cells, 4
\* with 31 to 60 and 5 with at most 30, and no make_move call lowers the depth
\* it returns.
C15_DepthPolicy ==
    /\ [](ret.op = "dynamic_depth" =>
            /\ EmptyCount(board) >= 61 => ret.depth = 3
            /\ (EmptyCount(board) >= 31 /\ EmptyCount(board) <= 60) => ret.depth = 4
            /\ EmptyCount(board) <= 30 => ret.depth = 5)
    /\ [][MakeMoveStep => dynamic_depth(board') >= dynamic_depth(board)]_vars

\* dynamic_depth has returned 4 on a board with exactly 60 empty cells
C15_Witness == ret.op = "dynamic_depth" /\ EmptyCount(board) = 60 /\ ret.depth = 4

\* the four cells from (r, c) in direction d lie on the board and hold player
FourFrom(b, r, c, d, player) ==
    \A i \in 0 .. 3 :
        /\ r + i * d[1] \in Rows
        /\ c + i * d[2] \in Cols
        /\ b[r + i * d[1]][c + i * d[2]] = player

\* the board b with every cell off the four cells from (r, c) in direction d emptied
OnlyFour(b, r, c, d) ==
    [rr \in Rows |-> [cc \in Cols |->
        IF OnLine(rr, cc, r, c, d[1], d[2], 4) THEN b[rr][cc] ELSE EMPTY]]

\* C16: check_for_win(player) returns true exactly when some four cells of the
\* board, contiguous along a row, a column or a diagonal, all hold player; and
\* when it does, it still does after every cell off such a line is emptied.
C16_WinIsSomeLineOfFour ==
    ret.op = "check_for_win" =>
        /\ ret.result <=>
              \E r \in Rows, c \in Cols, d \in Directions :
                  FourFrom(board, r, c, d, ret.player)
        /\ ret.result =>
              \E r \in Rows, c \in Cols, d \in Directions :
                  /\ FourFrom(board, r, c, d, ret.player)
                  /\ check_for_win(OnlyFour(board, r, c, d), ret.player)

\* check_for_win has found the rising diagonal that ends in the top right corner
C16_Witness ==
    /\ ret.op = "check_for_win" /\ ret.result
    /\ FourFrom(board, 3, BOARD_SIZE - 4, << -1, 1 >>, ret.player)

\* C17: whenever the game loop calls minimax, the board has a legal column and
\* no marker has four in a row; the call returns a column, and the AI's turn
\* ends with one more AI piece on the board.
C17_SearchOnlyWhenNotTerminal ==
    /\ [][(driver.pc = "turn" /\ stack = << >> /\ stack' # << >>)
            => (get_valid_moves(board) # << >> /\ ~SomeWin(board))]_vars
    /\ [][(driver.pc = "turn" /\ driver.current_player = AI /\ driver'.pc = "check")
            => /\ ret.column # None
               /\ EmptyCells(board') = EmptyCells(board) - 1
               /\ board'[ScanRow(board, ret.column[1])][ret.column[1]] = AI]_vars

\* the AI has placed the piece of a turn of the game
C17_Witness ==
    /\ driver.pc = "check" /\ driver.current_player = AI
    /\ ret.op = "ai_move" /\ ret.column # None
    /\ driver.turns >= 1

\* C18: the marker a minimizing call places in a column is P1 when
\* score_position(P1) > score_position(P2) on the board the call was entered
\* with, and P2 otherwise, for the first column and for every later one.
C18_StrongerHumanPlaced ==
    [][(stack # << >> /\ Head(stack).pc = "loop" /\ ~Head(stack).maximizing_player)
        => board'[ScanRow(board, Head(stack).valid_moves[Head(stack).k])]
                 [Head(stack).valid_moves[Head(stack).k]]
             = IF score_position(Head(stack).entry, P1) > score_position(Head(stack).entry, P2)
               THEN P1 ELSE P2]_vars

\* the marker placed in the column the second frame of the stack is waiting for
PlacedBelow ==
    board[stack[2].row][stack[2].valid_moves[stack[2].k]]

\* a minimizing call has placed P1 in a column that is not its first, on a
\* board where P1 is ahead
C18_Witness ==
    /\ Len(stack) >= 2
    /\ ~stack[2].maximizing_player /\ stack[2].pc = "wait" /\ stack[2].k >= 2
    /\ PlacedBelow = P1
    /\ score_position(stack[2].entry, P1) > score_position(stack[2].entry, P2)

\* some board of the tree that a call of the given depth explores without cuts
\* has four in a row.  (The singleton sets bind the moves, the marker and the
\* next board, so that each is computed once.)
RECURSIVE WinInTree(_, _, _)
WinInTree(b, depth, maximizing_player) ==
    \/ SomeWin(b)
    \/ /\ depth > 0
       /\ \E moves \in { get_valid_moves(b) },
             marker \in { IF maximizing_player THEN AI ELSE ActingHuman(b) } :
             \E k \in 1 .. Len(moves) :
                 \E nb \in { Simulate(b, moves[k], marker) } :
                     WinInTree(nb, depth - 1, ~maximizing_player)

\* the number of windows score_position evaluates
NumWindows ==
    2 * BOARD_SIZE * (BOARD_SIZE - 3) + 2 * (BOARD_SIZE - 3) * (BOARD_SIZE - 3)

\* C19: a call that has used up its depth on a board that is not terminal
\* returns score_position(AI), and that score is strictly between -1000000 and
\* +1000000 (for every board: the windows and the centre column cannot add up
\* to a sentinel); a call returns +-1000000 only when some board of its tree
\* has four in a row.
C19_SentinelDominance ==
    /\ [][(AtEntry /\ Head(stack).depth = 0 /\ ~is_terminal(board))
            => /\ stack' = Tail(stack)
               /\ ret'.score = score_position(board, AI)
               /\ -WIN_SCORE < ret'.score /\ ret'.score < WIN_SCORE]_vars
    /\ [](/\ \A np \in 0 .. 4, ne \in 0 .. 4, no \in 0 .. 4 :
               np + ne + no <= 4 => Abs(WindowScore(np, ne, no)) <= 100
           /\ 6 * BOARD_SIZE + 100 * NumWindows < WIN_SCORE)
    /\ []((Returned /\ Abs(ret.score) = WIN_SCORE)
            => WinInTree(board, call.depth, call.maximizing_player))

\* a call of depth 2 or more has backed up a score that is no sentinel and not 0
C19_Witness ==
    /\ Returned /\ call.depth >= 2 /\ ret.column # None
    /\ ret.score # 0 /\ Abs(ret.score) < WIN_SCORE

\* C20: under either turn policy, when each human turn eventually gets a legal
\* column: at the top of the loop and at its end the pieces on the board are
\* those of the first board plus one for each completed iteration; no step
\* fills a cell of a board on which some marker has four in a row (inside the
\* search a speculative piece is only taken off such a board); the loop goes on
\* only while a column is legal; it ends with four in a row for the marker that
\* just moved, or with a tie on a full board nobody has won; and it ends.
C20_GameTerminates ==
    /\ [](driver.pc \in {"top", "done"} =>
            EmptyCells(board) = driver.empty0 - driver.turns)
    /\ [][SomeWin(board) =>
            \A r \in Rows, c \in Cols : board[r][c] = EMPTY => board'[r][c] = EMPTY]_vars
    /\ [](driver.pc = "top" => get_valid_moves(board) # << >>)
    /\ [](driver.pc = "done" =>
            \/ /\ driver.result = "win"
               /\ check_for_win(board, driver.current_player)
            \/ /\ driver.result = "tie"
               /\ get_valid_moves(board) = << >>
               /\ ~SomeWin(board))
    /\ <>(driver.pc = "done")

\* a game has ended in a tie after three iterations
C20_Witness ==
    driver.pc = "done" /\ driver.result = "tie" /\ driver.turns = 3

====
